---- MODULE Spec2Model ----
(***************************************************************************)
(* DNS message codec of src/src/lib.rs: DnsMessage::new, to_bytes and      *)
(* from_bytes (with its nested parse_rr and parse_qname).                  *)
(*                                                                         *)
(* Buffers are sequences of bytes 0..255.  Positions are 0-based as in the *)
(* Rust code; At(b, i) is b[i].  A String is a sequence of Unicode code    *)
(* points; as_bytes and from_utf8_lossy convert it to and from UTF-8.      *)
(* An out-of-range index or slice is a Rust panic: outcome "panic".        *)
(***************************************************************************)
EXTENDS Integers, Sequences, FiniteSets, TLC

\* ---------------------------------------------------------------- bounds
\* longest name (in characters) among the exhaustively enumerated names
MaxNameLen == 3
\* largest sum of the four section counts a received header declares
MaxCount == 2
\* largest number of question/record entries present in a received body
MaxEntries == 2
\* largest rdata length of a record present in a received body
MaxRdLen == 1

\* ------------------------------------------------------------- helpers
\* the concatenation of a sequence of sequences (by halves: the recursion
\* is only log(Len) deep)
RECURSIVE Flatten(_)
Flatten(ss) ==
    IF ss = <<>> THEN <<>>
    ELSE IF Len(ss) = 1 THEN ss[1]
    ELSE Flatten(SubSeq(ss, 1, Len(ss) \div 2))
           \o Flatten(SubSeq(ss, Len(ss) \div 2 + 1, Len(ss)))

Rep(x, n) == [i \in 1..n |-> x]

At(b, i) == b[i + 1]

\* buf[from..to] of Rust (to exclusive)
Slice(b, from, to) == SubSeq(b, from + 1, to)

\* u16::to_be_bytes
to_be_bytes(v) == <<v \div 256, v % 256>>

\* u16::from_be_bytes
from_be_bytes(hi, lo) == hi * 256 + lo

\* u32::from_be_bytes.  The value is hi * 65536 + lo, held as <<hi, lo>>:
\* a u32 does not fit the 32-bit signed integers of TLC.
from_be_bytes32(b0, b1, b2, b3) == <<b0 * 256 + b1, b2 * 256 + b3>>

DOT == 46
REPLACEMENT == 65533

\* str::as_bytes for one character (code points below 0x800: 1 or 2 bytes)
Utf8(cp) == IF cp < 128 THEN <<cp>> ELSE <<192 + (cp \div 64), 128 + (cp % 64)>>

as_bytes(s) == Flatten([i \in 1..Len(s) |-> Utf8(s[i])])

\* String::from_utf8_lossy over byte strings without the lead bytes
\* 0xE0..0xF4 (no buffer of the model holds one): an ASCII byte is itself,
\* a lead byte 0xC2..0xDF with a continuation byte 0x80..0xBF is one 2-byte
\* character, and every other byte is one U+FFFD.  A continuation byte is
\* consumed exactly when a lead byte precedes it.
IsLead(b) == b >= 194 /\ b <= 223

IsContinuation(b) == b >= 128 /\ b <= 191

from_utf8_lossy(bs) ==
    Flatten([i \in 1..Len(bs) |->
        IF bs[i] < 128 THEN <<bs[i]>>
        ELSE IF IsLead(bs[i]) /\ i < Len(bs) /\ IsContinuation(bs[i + 1])
             THEN <<(bs[i] - 192) * 64 + (bs[i + 1] - 128)>>
        ELSE IF IsContinuation(bs[i]) /\ i > 1 /\ IsLead(bs[i - 1]) THEN <<>>
        ELSE <<REPLACEMENT>>])

\* str::split('.'): always at least one piece; "" gives [""], "a." gives ["a", ""]
RECURSIVE split(_)
split(s) ==
    IF \A i \in 1..Len(s) : s[i] # DOT THEN <<s>>
    ELSE LET k == CHOOSE i \in 1..Len(s) :
                      s[i] = DOT /\ \A j \in 1..(i - 1) : s[j] # DOT
         IN <<SubSeq(s, 1, k - 1)>> \o split(SubSeq(s, k + 1, Len(s)))

\* [String]::join(".")
RECURSIVE join(_)
join(ls) ==
    IF ls = <<>> THEN <<>>
    ELSE IF Len(ls) = 1 THEN ls[1]
    ELSE ls[1] \o <<DOT>> \o join(Tail(ls))

\* ------------------------------------------------------------- messages
DnsHeader(id, fl, qd, an, ns, ar) ==
    [identification |-> id, flags |-> fl, no_of_questions |-> qd,
     no_of_answers_rr |-> an, no_of_authority_rr |-> ns, no_of_additional_rr |-> ar]

DnsQuestion(n, t, c) == [qname |-> n, qtype |-> t, qclass |-> c]

ResourceRecord(n, t, c, ttl, rdl, rd) ==
    [name |-> n, rr_type |-> t, class |-> c, ttl |-> ttl, rdlength |-> rdl, rdata |-> rd]

DnsMessage(h, q, an, ns, ar) ==
    [header |-> h, question |-> q, answers |-> an, authority |-> ns, additional |-> ar]

\* DnsMessage::new
new(url) ==
    DnsMessage(DnsHeader(4660, 256, 1, 0, 0, 0), DnsQuestion(url, 28, 1), <<>>, <<>>, <<>>)

\* mutant of LengthByte: the label's characters are counted, not its octets
LengthByteOfChars(label) == Len(label) % 256

\* the length byte of a label: label.len() as u8
LengthByte(label) == Len(as_bytes(label)) % 256

\* the QNAME loop of to_bytes
EncodeLabel(label) == <<LengthByte(label)>> \o as_bytes(label)

\* the terminator pushed after the labels
EndOfQname == <<0>>

\* the six header fields of to_bytes
EncodeHeader(h) ==
    to_be_bytes(h.identification) \o to_be_bytes(h.flags)
      \o to_be_bytes(h.no_of_questions) \o to_be_bytes(h.no_of_answers_rr)
      \o to_be_bytes(h.no_of_authority_rr) \o to_be_bytes(h.no_of_additional_rr)

\* DnsMessage::to_bytes
to_bytes(m) ==
    EncodeHeader(m.header)
      \o Flatten([i \in 1..Len(split(m.question.qname)) |->
                    EncodeLabel(split(m.question.qname)[i])])
      \o EndOfQname
      \o to_be_bytes(m.question.qtype) \o to_be_bytes(m.question.qclass)

\* ------------------------------------------------------ encoder inputs
NameChars == {97, DOT, 233}

ShortNames == UNION {[1..n -> NameChars] : n \in 0..MaxNameLen}

\* "example.com"
ExampleCom == <<101, 120, 97, 109, 112, 108, 101, DOT, 99, 111, 109>>

\* "example.com", and labels at the limits of the length byte: 63, 64 and
\* 256 octets
LongNames == {ExampleCom, Rep(97, 63), Rep(97, 64), Rep(97, 256)}

Names == ShortNames \cup LongNames

SampleRecord == ResourceRecord(<<97>>, 1, 1, <<0, 5>>, 1, <<7>>)

\* the query of new(url); a message with other header and question fields;
\* a message that holds an answer record
Messages ==
    {new(n) : n \in Names}
      \cup {DnsMessage(DnsHeader(43981, 33152, 1, 0, 0, 0), DnsQuestion(n, 255, 258),
                       <<>>, <<>>, <<>>) : n \in Names}
      \cup {DnsMessage(DnsHeader(4660, 256, 1, 1, 0, 0), DnsQuestion(n, 1, 1),
                       <<SampleRecord>>, <<>>, <<>>) : n \in Names}

NoMessage == DnsMessage(DnsHeader(0, 0, 0, 0, 0, 0), DnsQuestion(<<>>, 0, 0), <<>>, <<>>, <<>>)

\* ------------------------------------------------------ decoder inputs
\* names in wire form: root, "a", a pointer to offset 12, a pointer to
\* offset 14, "a" then a pointer to 12, a pointer past every buffer,
\* a 2-byte character, a byte that is no UTF-8
WireNames ==
    { <<0>>, <<1, 97, 0>>, <<192, 12>>, <<192, 14>>, <<1, 97, 192, 12>>,
      <<192, 255>>, <<2, 195, 169, 0>>, <<1, 128, 0>> }

CountTuples ==
    {c \in [1..4 -> 0..MaxCount] : c[1] + c[2] + c[3] + c[4] <= MaxCount}

WireHeader(c) == EncodeHeader(DnsHeader(4660, 33152, c[1], c[2], c[3], c[4]))

WireQuestion(n) == n \o <<0, 1, 0, 1>>

WireRecord(n, rdl) == n \o <<0, 1, 0, 1, 0, 0, 0, 5, 0, rdl>> \o Rep(7, rdl)

\* nq questions then nr records; the first two entries are named n1 and n2,
\* every later one by a pointer to offset 12
WireBody(nq, nr, n1, n2, rdl) ==
    Flatten([i \in 1..(nq + nr) |->
        LET n == IF i = 1 THEN n1 ELSE IF i = 2 THEN n2 ELSE <<192, 12>>
        IN IF i <= nq THEN WireQuestion(n) ELSE WireRecord(n, rdl)])

Shapes == {s \in (0..MaxEntries) \X (0..MaxEntries) : s[1] + s[2] <= MaxEntries}

FullBuffers ==
    {WireHeader(c) \o WireBody(s[1], s[2], n1, n2, rdl) :
        c \in CountTuples, s \in Shapes, n1 \in WireNames, n2 \in WireNames,
        rdl \in 0..MaxRdLen}

\* every proper prefix of a one-question, one-answer reply
TruncatedBuffers ==
    LET base == {WireHeader(<<1, 1, 0, 0>>) \o WireBody(1, 1, <<1, 97, 0>>, n2, MaxRdLen) :
                    n2 \in {<<1, 97, 0>>, <<192, 12>>}}
    IN UNION {{SubSeq(b, 1, n) : n \in 0..(Len(b) - 1)} : b \in base}

Buffers == FullBuffers \cup TruncatedBuffers


\* ---------------------------------------------------------------- state
VARIABLES
    msg,            \* the DnsMessage handed to to_bytes (NoMessage: none)
    wire,           \* the Vec<u8> to_bytes returned
    buf,            \* the buffer handed to from_bytes
    pc,             \* the position in to_bytes / from_bytes
    header,         \* from_bytes: header
    pos,            \* from_bytes: pos
    questions,      \* from_bytes: questions
    answers,        \* from_bytes: answers
    authority,      \* from_bytes: authority
    additional,     \* from_bytes: additional
    qname,          \* the name the last parse_qname call returned
    rpos,           \* parse_rr: pos
    caller,         \* who waits for parse_qname / parse_rr to return
    qpos,           \* parse_qname: pos
    labels,         \* parse_qname: labels
    jumped,         \* parse_qname: jumped
    original_pos,   \* parse_qname: original_pos
    pointer_offset, \* parse_qname: pointer_offset
    visited,        \* loop-head positions of the running parse_qname call
    result,         \* the DnsMessage from_bytes returned
    outcome         \* "running", "ok" (a message was returned), "panic"

vars == <<msg, wire, buf, pc, header, pos, questions, answers, authority, additional,
          qname, rpos, caller, qpos, labels, jumped, original_pos,
          pointer_offset, visited, result,
          outcome>>

Init ==
    /\ \/ msg \in Messages /\ buf = <<>> /\ pc = "to_bytes"
       \/ msg = NoMessage /\ buf \in Buffers /\ pc = "from_bytes"
    /\ wire = <<>>
    /\ header = NoMessage.header
    /\ pos = 0
    /\ questions = <<>>
    /\ answers = <<>>
    /\ authority = <<>>
    /\ additional = <<>>
    /\ qname = <<>>
    /\ rpos = 0
    /\ caller = "none"
    /\ qpos = 0
    /\ labels = <<>>
    /\ jumped = FALSE
    /\ original_pos = 0
    /\ pointer_offset = 0
    /\ visited = {}
    /\ result = NoMessage
    /\ outcome = "running"

\* an index or a slice out of range: the thread panics
Panic ==
    /\ pc' = "done"
    /\ outcome' = "panic"
    /\ UNCHANGED <<msg, wire, buf, header, pos, questions, answers, authority, additional,
                   qname, rpos, caller, qpos, labels, jumped, original_pos,
                   pointer_offset, visited,
                   result>>

\* ------------------------------------------------------------- encoder
ToBytes ==
    /\ pc = "to_bytes"
    /\ wire' = to_bytes(msg)
    /\ pc' = "encoded"
    /\ UNCHANGED <<msg, buf, header, pos, questions, answers, authority, additional,
                   qname, rpos, caller, qpos, labels, jumped, original_pos,
                   pointer_offset, visited,
                   result, outcome>>

\* the encoded bytes come back as the buffer to decode: decode(encode(msg))
Loopback ==
    /\ pc = "encoded"
    /\ buf' = wire
    /\ pc' = "from_bytes"
    /\ UNCHANGED <<msg, wire, header, pos, questions, answers, authority, additional,
                   qname, rpos, caller, qpos, labels, jumped, original_pos,
                   pointer_offset, visited,
                   result, outcome>>

\* ------------------------------------------------------------- decoder
\* the header literal of from_bytes: buf[0] .. buf[11]
ParseHeader ==
    /\ pc = "from_bytes"
    /\ IF Len(buf) < 12 THEN Panic
       ELSE /\ header' = DnsHeader(from_be_bytes(At(buf, 0), At(buf, 1)),
                                   from_be_bytes(At(buf, 2), At(buf, 3)),
                                   from_be_bytes(At(buf, 4), At(buf, 5)),
                                   from_be_bytes(At(buf, 6), At(buf, 7)),
                                   from_be_bytes(At(buf, 8), At(buf, 9)),
                                   from_be_bytes(At(buf, 10), At(buf, 11)))
            /\ pos' = 12
            /\ questions' = <<>>
            /\ pc' = "questions"
            /\ UNCHANGED <<msg, wire, buf, answers, authority, additional, qname, rpos,
                           caller, qpos, labels, jumped, original_pos,
                           pointer_offset, visited, result,
                           outcome>>

\* the entry of parse_qname(buf, start), called on behalf of `who`
CallQname(who, start) ==
    /\ caller' = who
    /\ qpos' = start
    /\ labels' = <<>>
    /\ jumped' = FALSE
    /\ original_pos' = 0
    /\ pointer_offset' = 0
    /\ visited' = {}
    /\ pc' = "parse_qname"

\* for _ in 0..header.no_of_questions
QuestionLoop ==
    /\ pc = "questions"
    /\ IF Len(questions) < header.no_of_questions
       THEN /\ CallQname("question", pos)
            /\ UNCHANGED <<msg, wire, buf, header, pos, questions, answers, authority,
                           additional, qname, rpos, result, outcome>>
       ELSE /\ pc' = "answers"
            /\ UNCHANGED <<msg, wire, buf, header, pos, questions, answers, authority,
                           additional, qname, rpos, caller, qpos, labels, jumped,
                           original_pos, pointer_offset, visited, result, outcome>>

\* byte & 0b11000000 == 0b11000000
IsPointer(byte) == byte >= 192

\* ((byte ^ 0b11000000) as u16) << 8 | second_byte as u16
PointerOffset(byte, second_byte) == (byte - 192) * 256 + second_byte

\* mutant of SavedPos: the return position is overwritten at every jump
SavedPosEveryJump(j, orig, p) == p + 2

\* if !jumped { original_pos = pos + 2 }
SavedPos(j, orig, p) == IF ~j THEN p + 2 ELSE orig

\* mutant of ReturnPos: the cursor of the pointed-to region is returned
ReturnPosIgnoringJump(j, orig, p) == p

\* if jumped { (qname, original_pos) } else { (qname, pos) }
ReturnPos(j, orig, p) == IF j THEN orig ELSE p

\* let byte = buf[pos] with pos past the end
QnameOutOfRange ==
    /\ pc = "parse_qname"
    /\ qpos >= Len(buf)
    /\ Panic

\* the pointer branch of the loop of parse_qname: the second byte is read
\* and the 14-bit offset is built
QnamePointer ==
    /\ pc = "parse_qname"
    /\ qpos < Len(buf)
    /\ IsPointer(At(buf, qpos))
    /\ IF qpos + 1 >= Len(buf) THEN Panic
       ELSE /\ pointer_offset' = PointerOffset(At(buf, qpos), At(buf, qpos + 1))
            /\ visited' = visited \cup {qpos}
            /\ pc' = "jump"
            /\ UNCHANGED <<msg, wire, buf, header, pos, questions, answers, authority,
                           additional, qname, rpos, caller, qpos, labels, jumped,
                           original_pos, result, outcome>>

\* the end of the pointer branch: the return position is saved at the
\* first jump, pos = pointer_offset, jumped = true, continue
QnameJump ==
    /\ pc = "jump"
    /\ original_pos' = SavedPos(jumped, original_pos, qpos)
    /\ qpos' = pointer_offset
    /\ jumped' = TRUE
    /\ pc' = "parse_qname"
    /\ UNCHANGED <<msg, wire, buf, header, pos, questions, answers, authority, additional,
                   qname, rpos, caller, labels, pointer_offset, visited, result, outcome>>

\* the label branch of the loop of parse_qname.  Once a loop-head position
\* repeats the call can never return and its labels are never read again:
\* they are kept as they are, so that the loop is a cycle of states.
QnameLabel ==
    /\ pc = "parse_qname"
    /\ qpos < Len(buf)
    /\ ~IsPointer(At(buf, qpos))
    /\ At(buf, qpos) # 0
    /\ LET end == qpos + 1 + At(buf, qpos)
       IN IF end > Len(buf) THEN Panic
          ELSE /\ labels' = IF qpos \in visited THEN labels
                            ELSE Append(labels, from_utf8_lossy(Slice(buf, qpos + 1, end)))
               /\ qpos' = end
               /\ visited' = visited \cup {qpos}
               /\ UNCHANGED <<msg, wire, buf, pc, header, pos, questions, answers,
                              authority, additional, qname, rpos, caller, jumped,
                              original_pos, pointer_offset, result, outcome>>

\* the zero byte: break, join the labels and return to the caller
QnameEnd ==
    /\ pc = "parse_qname"
    /\ qpos < Len(buf)
    /\ At(buf, qpos) = 0
    /\ qname' = join(labels)
    /\ IF caller = "question"
       THEN /\ pos' = ReturnPos(jumped, original_pos, qpos + 1)
            /\ pc' = "question_fields"
            /\ UNCHANGED rpos
       ELSE /\ rpos' = ReturnPos(jumped, original_pos, qpos + 1)
            /\ pc' = "rr_fields"
            /\ UNCHANGED pos
    /\ UNCHANGED <<msg, wire, buf, header, questions, answers, authority, additional,
                   caller, qpos, labels, jumped, original_pos,
                   pointer_offset, visited, result, outcome>>

\* qtype, qclass and the push of the question loop
QuestionFields ==
    /\ pc = "question_fields"
    /\ IF pos + 3 >= Len(buf) THEN Panic
       ELSE /\ questions' = Append(questions,
                   DnsQuestion(qname, from_be_bytes(At(buf, pos), At(buf, pos + 1)),
                               from_be_bytes(At(buf, pos + 2), At(buf, pos + 3))))
            /\ pos' = pos + 4
            /\ pc' = "questions"
            /\ UNCHANGED <<msg, wire, buf, header, answers, authority, additional, qname,
                           rpos, caller, qpos, labels, jumped, original_pos,
                           pointer_offset, visited,
                           result, outcome>>

\* one of the three record loops: call parse_rr(buf, pos), which calls
\* parse_qname(buf, pos), or go on to the next section
RecordLoop(section, list, count, next) ==
    /\ pc = section
    /\ IF Len(list) < count
       THEN /\ rpos' = pos
            /\ CallQname(section, pos)
            /\ UNCHANGED <<msg, wire, buf, header, pos, questions, answers, authority,
                           additional, qname, result, outcome>>
       ELSE /\ pc' = next
            /\ UNCHANGED <<msg, wire, buf, header, pos, questions, answers, authority,
                           additional, qname, rpos, caller, qpos, labels, jumped,
                           original_pos, pointer_offset, visited, result, outcome>>

AnswersLoop == RecordLoop("answers", answers, header.no_of_answers_rr, "authority")

AuthorityLoop == RecordLoop("authority", authority, header.no_of_authority_rr, "additional")

AdditionalLoop == RecordLoop("additional", additional, header.no_of_additional_rr, "build")

\* the record parse_rr builds from the ten fixed bytes at p and the rdata
RecordAt(n, p) ==
    LET rdlength == from_be_bytes(At(buf, p + 8), At(buf, p + 9))
    IN ResourceRecord(n,
                      from_be_bytes(At(buf, p), At(buf, p + 1)),
                      from_be_bytes(At(buf, p + 2), At(buf, p + 3)),
                      from_be_bytes32(At(buf, p + 4), At(buf, p + 5), At(buf, p + 6),
                                      At(buf, p + 7)),
                      rdlength,
                      Slice(buf, p + 10, p + 10 + rdlength))

\* parse_rr after its name: type, class, ttl, rdlength, rdata; its return
\* and the push of the calling loop
RRFields ==
    /\ pc = "rr_fields"
    /\ IF rpos + 9 >= Len(buf) THEN Panic
       ELSE IF rpos + 10 + from_be_bytes(At(buf, rpos + 8), At(buf, rpos + 9)) > Len(buf)
       THEN Panic
       ELSE /\ pos' = rpos + 10 + from_be_bytes(At(buf, rpos + 8), At(buf, rpos + 9))
            /\ answers' = IF caller = "answers"
                          THEN Append(answers, RecordAt(qname, rpos)) ELSE answers
            /\ authority' = IF caller = "authority"
                            THEN Append(authority, RecordAt(qname, rpos)) ELSE authority
            /\ additional' = IF caller = "additional"
                             THEN Append(additional, RecordAt(qname, rpos)) ELSE additional
            /\ pc' = caller
            /\ UNCHANGED <<msg, wire, buf, header, questions, qname, rpos, caller, qpos,
                           labels, jumped, original_pos,
                           pointer_offset, visited, result, outcome>>

\* questions.into_iter().next().unwrap_or(DnsQuestion { "", 0, 0 })
FirstQuestion(qs) == IF qs # <<>> THEN qs[1] ELSE DnsQuestion(<<>>, 0, 0)

\* the DnsMessage literal from_bytes returns
Build ==
    /\ pc = "build"
    /\ result' = DnsMessage(header, FirstQuestion(questions), answers, authority, additional)
    /\ outcome' = "ok"
    /\ pc' = "done"
    /\ UNCHANGED <<msg, wire, buf, header, pos, questions, answers, authority, additional,
                   qname, rpos, caller, qpos, labels, jumped, original_pos,
                   pointer_offset, visited>>

\* from_bytes on a buffer that was received
DecodeInit == Init /\ msg = NoMessage

\* the steps of from_bytes
DecodeNext ==
    \/ ParseHeader
    \/ QuestionLoop
    \/ QnameOutOfRange
    \/ QnamePointer
    \/ QnameJump
    \/ QnameLabel
    \/ QnameEnd
    \/ QuestionFields
    \/ AnswersLoop
    \/ AuthorityLoop
    \/ AdditionalLoop
    \/ RRFields
    \/ Build

Next ==
    \/ ToBytes
    \/ Loopback
    \/ DecodeNext

Spec == Init /\ [][Next]_vars

\* from_bytes alone; a running call keeps taking its next step
FairSpec == DecodeInit /\ [][DecodeNext]_vars /\ WF_vars(DecodeNext)

\* ------------------------------------------------------------- claims
\* every label of the name is 1..63 octets
ValidName(n) ==
    \A i \in 1..Len(split(n)) :
        Len(as_bytes(split(n)[i])) >= 1 /\ Len(as_bytes(split(n)[i])) <= 63

\* the message went through to_bytes and the bytes were decoded
RoundTripDone == msg # NoMessage /\ pc = "done"

\* C1: decoding the encoding of a message with one question and empty
\* record lists returns a message with the same four counts and the same
\* question name, type and class.
RoundTrip ==
    (RoundTripDone /\ msg.answers = <<>>) =>
        /\ outcome = "ok"
        /\ result.header.no_of_questions = msg.header.no_of_questions
        /\ result.header.no_of_answers_rr = msg.header.no_of_answers_rr
        /\ result.header.no_of_authority_rr = msg.header.no_of_authority_rr
        /\ result.header.no_of_additional_rr = msg.header.no_of_additional_rr
        /\ result.question = msg.question

\* C2: from_bytes reaches a final outcome on every buffer.
DecodeTerminates == <>(pc = "done")

\* C3: a pointer at offset P whose target is >= P makes decode fail with
\* MalformedPointer instead of being followed.
CycleGuard ==
    [][(pc = "jump" /\ pointer_offset >= qpos) => outcome' = "MalformedPointer"]_vars

\* a field read of from_bytes, parse_rr or parse_qname that goes past the
\* end of the buffer (a pointer target past the end is not one of them)
ReadPastEnd ==
    \/ pc = "from_bytes" /\ Len(buf) < 12
    \/ pc = "parse_qname" /\ ~jumped /\ qpos >= Len(buf)
    \/ pc = "parse_qname" /\ qpos < Len(buf) /\ IsPointer(At(buf, qpos))
         /\ qpos + 1 >= Len(buf)
    \/ pc = "parse_qname" /\ qpos < Len(buf) /\ ~IsPointer(At(buf, qpos))
         /\ qpos + 1 + At(buf, qpos) > Len(buf)
    \/ pc = "question_fields" /\ pos + 3 >= Len(buf)
    \/ pc = "rr_fields" /\ rpos + 9 >= Len(buf)
    \/ pc = "rr_fields" /\ rpos + 9 < Len(buf)
         /\ rpos + 10 + from_be_bytes(At(buf, rpos + 8), At(buf, rpos + 9)) > Len(buf)

\* C4: a field read past the end of the buffer makes from_bytes return the
\* Truncated error; it neither aborts nor returns a shorter message.
TruncatedIsReturned == [][ReadPastEnd => outcome' = "Truncated"]_vars

\* the labels read from p up to the first zero byte or pointer byte, and
\* the position of that byte
RECURSIVE LinearLabels(_, _)
LinearLabels(b, p) ==
    IF At(b, p) = 0 \/ IsPointer(At(b, p)) THEN [labels |-> <<>>, stop |-> p]
    ELSE LET rest == LinearLabels(b, p + 1 + At(b, p))
         IN [labels |-> <<from_utf8_lossy(Slice(b, p + 1, p + 1 + At(b, p)))>> \o rest.labels,
             stop |-> rest.stop]

\* the labels of the name at p: those before the first pointer, then those
\* of the name at the pointer's target
RECURSIVE NameLabels(_, _, _)
NameLabels(b, p, fuel) ==
    LET l == LinearLabels(b, p)
    IN IF At(b, l.stop) = 0 \/ fuel = 0 THEN l.labels
       ELSE l.labels \o NameLabels(b, PointerOffset(At(b, l.stop), At(b, l.stop + 1)),
                                   fuel - 1)

\* parse_qname returns in this step
QnameReturns == pc = "parse_qname" /\ pc' \in {"question_fields", "rr_fields"}

\* the position the returning parse_qname call was started at
QnameStart == IF caller = "question" THEN pos ELSE rpos

\* C5: a parse_qname call that returns gives the labels before the first
\* pointer followed by the labels at the pointer targets, joined by '.';
\* its cursor is the position of the first pointer + 2 when a pointer was
\* followed, and the position past the zero terminator when none was.
PointerResolution ==
    [][QnameReturns =>
        LET s == QnameStart
            ret == IF caller = "question" THEN pos' ELSE rpos'
            first == LinearLabels(buf, s).stop
        IN /\ qname' = join(NameLabels(buf, s, Len(buf)))
           /\ IsPointer(At(buf, first)) => ret = first + 2
           /\ ~IsPointer(At(buf, first)) => ret = first + 1 /\ first = qpos]_vars

\* a name was returned after two chained pointers, with a label read
\* before the first one
ChainedPointersResolved ==
    /\ pc \in {"question_fields", "rr_fields"}
    /\ jumped
    /\ Cardinality({p \in visited : IsPointer(At(buf, p))}) >= 2
    /\ ~IsPointer(At(buf, QnameStart))
    /\ qname # <<>>

\* the number of questions a DnsMessage holds: its one question field
QuestionsHeld(m) == 1

\* C6: a returned message's four counts equal the numbers of questions,
\* answers, authority and additional records it holds.
CountsMatchContents ==
    outcome = "ok" =>
        /\ result.header.no_of_questions = QuestionsHeld(result)
        /\ result.header.no_of_answers_rr = Len(result.answers)
        /\ result.header.no_of_authority_rr = Len(result.authority)
        /\ result.header.no_of_additional_rr = Len(result.additional)

\* C7: to_bytes fails with InvalidName on a name with an empty label or a
\* label over 63 octets (no bytes are returned), and returns bytes otherwise.
EncoderValidatesName ==
    pc = "encoded" =>
        IF ValidName(msg.question.qname) THEN wire # <<>>
        ELSE wire = <<>> /\ outcome = "InvalidName"

\* C8: with questionCount = 0 the returned question is absent: it is not
\* the question a root name with type 0 and class 0 decodes to.
AbsentQuestionIsExplicit ==
    (outcome = "ok" /\ result.header.no_of_questions = 0) =>
        result.question # DnsQuestion(join(<<>>), 0, 0)

\* the number of octets up to the next '.' (or the end) after index i
RunLength(nb, i) ==
    CHOOSE k \in 0..(Len(nb) - i) :
        /\ \A j \in 1..k : nb[i + j] # DOT
        /\ i + k = Len(nb) \/ nb[i + k + 1] = DOT

\* C9: for a valid name to_bytes returns the six header fields as 2
\* big-endian bytes each, then per label one length byte and the label's
\* bytes, one zero byte, type and class as 2 big-endian bytes each, and
\* nothing else: 12 + (name octets + 2) + 4 bytes.
WireLayout ==
    (pc = "encoded" /\ ValidName(msg.question.qname)) =>
        LET nb == as_bytes(msg.question.qname)
            n == Len(nb)
            h == msg.header
            fields == <<h.identification, h.flags, h.no_of_questions, h.no_of_answers_rr,
                        h.no_of_authority_rr, h.no_of_additional_rr>>
        IN /\ Len(wire) = 12 + (n + 2) + 4
           /\ \A k \in 1..6 : wire[2 * k - 1] * 256 + wire[2 * k] = fields[k]
           /\ \A i \in 0..n :
                IF i = 0 \/ nb[i] = DOT THEN wire[13 + i] = RunLength(nb, i)
                ELSE wire[13 + i] = nb[i]
           /\ wire[13 + n + 1] = 0
           /\ wire[13 + n + 2] * 256 + wire[13 + n + 3] = msg.question.qtype
           /\ wire[13 + n + 4] * 256 + wire[13 + n + 5] = msg.question.qclass

\* "example.com" was encoded as 07 example 03 com 00 for a message that
\* holds an answer record
ExampleComEncoded ==
    /\ pc = "encoded"
    /\ msg.question.qname = ExampleCom
    /\ msg.answers # <<>>
    /\ SubSeq(wire, 13, Len(wire) - 4)
         = <<7, 101, 120, 97, 109, 112, 108, 101, 3, 99, 111, 109, 0>>

\* C10: the cursor of from_bytes starts at 12; a parse_qname call started
\* at s returns a cursor > s; a parse_rr call started at s returns a
\* cursor >= s + 11 + rdlength; every parsed question moves the cursor on.
CursorProgress ==
    [][/\ (pc = "from_bytes" /\ pc' = "questions") => pos' = 12
       /\ QnameReturns =>
            (IF caller = "question" THEN pos' > pos ELSE rpos' > pos /\ pos' = pos)
       /\ (pc = "question_fields" /\ pc' = "questions") => pos' > pos
       /\ (pc = "rr_fields" /\ pc' # "done") =>
            pos' >= pos + 11 + from_be_bytes(At(buf, rpos + 8), At(buf, rpos + 9))]_vars

\* a record whose name is a pointer back into an earlier entry was parsed
BackwardPointerRecordParsed ==
    /\ pc = "answers"
    /\ Len(answers) = 1
    /\ jumped
    /\ qpos + 1 < rpos
    /\ pos > rpos

====
